---- MODULE Spec2Model ----
(***************************************************************************)
(* Run-metrics and output-artifact recording of WorkflowOrchestrator       *)
(* (src/workflow_orchestrator.py): run_workflow, batch_process, the record *)
(* writers and the slug derivation.                                        *)
(*                                                                         *)
(* Conventions                                                             *)
(*  - A string is a sequence of one-character strings.                     *)
(*  - The wall clock counts ticks; TicksPerSecond ticks make one second.   *)
(*    strftime("%Y%m%d_%H%M%S") keeps the whole seconds of an instant.     *)
(*  - A Python float is an exact rational [num, den] in lowest terms.      *)
(*  - A dict is a record; its keys are its DOMAIN.                         *)
(***************************************************************************)
EXTENDS Integers, Sequences, FiniteSets, TLC

VARIABLES workflow_metrics, now, disk, last, okSum, okCount, batch,
          blog_posts, lastSave, boot

vars == <<workflow_metrics, now, disk, last, okSum, okCount, batch,
          blog_posts, lastSave, boot>>

(***************************************************************************)
(* Bounds                                                                  *)
(***************************************************************************)
MaxRuns == 3
MaxClock == 2
MaxDur == 1
MaxBatch == 2
MaxSaves == 2
TicksPerSecond == 2

(***************************************************************************)
(* Characters and strings                                                  *)
(***************************************************************************)
UpperChars == <<"A","B","C","D","E","F","G","H","I","J","K","L","M",
                "N","O","P","Q","R","S","T","U","V","W","X","Y","Z">>
LowerChars == <<"a","b","c","d","e","f","g","h","i","j","k","l","m",
                "n","o","p","q","r","s","t","u","v","w","x","y","z">>
DigitChars == <<"0","1","2","3","4","5","6","7","8","9">>

Range(s) == {s[i] : i \in DOMAIN s}

\* str.isalnum() of one character
isalnum(c) == c \in Range(UpperChars) \cup Range(LowerChars) \cup Range(DigitChars)

\* str.isspace() of one character, as str.rstrip() with no argument uses it
isspace(c) == c \in {" ", "\t", "\n", "\r"}

\* str.lower() of one character
lower_char(c) ==
    IF c \in Range(UpperChars)
    THEN LowerChars[CHOOSE i \in DOMAIN UpperChars : UpperChars[i] = c]
    ELSE c

\* The case of the topic kept
no_lower(s) == s

\* str.lower()
lower(s) == [i \in DOMAIN s |-> lower_char(s[i])]

\* str.replace(' ', '_')
replace_space(s) == [i \in DOMAIN s |-> IF s[i] = " " THEN "_" ELSE s[i]]

\* The trailing whitespace left in place
no_rstrip(s) == s

\* str.rstrip()
RECURSIVE rstrip(_)
rstrip(s) ==
    IF s = <<>> THEN <<>>
    ELSE IF isspace(s[Len(s)]) THEN rstrip(SubSeq(s, 1, Len(s) - 1))
    ELSE s

\* "".join(c for c in topic if c.isalnum() or c in (' ', '-', '_'))
keep_safe(s) == SelectSeq(s, LAMBDA c : isalnum(c) \/ c \in {" ", "-", "_"})

\* safe_topic of _get_output_files
safe_topic(s) == lower(replace_space(rstrip(keep_safe(s))))

\* safe_topic of save_output_files
save_safe_topic(s) == lower(replace_space(rstrip(keep_safe(s))))

(***************************************************************************)
(* Topics a caller passes.  A topic that is not a string (Python does not  *)
(* enforce the annotation) formats into the prompts but cannot be iterated.*)
(***************************************************************************)
TopicAI == [isStr |-> TRUE,
            chars |-> <<"A","I"," ","&"," ","S","o","c","i","e","t","y","!","!">>]
TopicSpaces == [isStr |-> TRUE, chars |-> <<" "," "," ">>]
TopicNotStr == [isStr |-> FALSE, chars |-> <<>>]
Topics == {TopicAI, TopicSpaces, TopicNotStr}

DefaultWordCount == 2000

(***************************************************************************)
(* Floats as exact rationals                                               *)
(***************************************************************************)
RECURSIVE GCD(_, _)
GCD(a, b) == IF b = 0 THEN a ELSE GCD(b, a % b)

Rat(n, d) == LET g == GCD(n, d) IN [num |-> n \div g, den |-> d \div g]
RatInt(n) == [num |-> n, den |-> 1]
RatAdd(x, y) == Rat(x.num * y.den + y.num * x.den, x.den * y.den)
RatMul(x, y) == Rat(x.num * y.num, x.den * y.den)
RatDiv(x, y) == Rat(x.num * y.den, x.den * y.num)

\* timedelta.total_seconds() of a duration of d ticks
total_seconds(d) == Rat(d, TicksPerSecond)

\* datetime.strftime("%Y%m%d_%H%M%S"): the instant truncated to whole seconds
strftime(t) == t \div TicksPerSecond

\* datetime.isoformat(): lossless, whole seconds and the sub-second part
isoformat(t) == [sec |-> t \div TicksPerSecond, frac |-> t % TicksPerSecond]

(***************************************************************************)
(* Metrics                                                                 *)
(***************************************************************************)
InitMetrics ==
    [total_runs |-> 0, successful_runs |-> 0, failed_runs |-> 0,
     total_cost |-> RatInt(0), avg_duration |-> RatInt(0)]

\* (estimated_tokens / 1000) * cost_per_1k_tokens = 15 * 0.002
estimate_cost == RatMul(Rat(15000, 1000), Rat(2, 1000))

get_performance_metrics(m, t) ==
    [total_runs |-> m.total_runs,
     successful_runs |-> m.successful_runs,
     failed_runs |-> m.failed_runs,
     success_rate |-> IF m.total_runs > 0
                      THEN RatMul(Rat(m.successful_runs, m.total_runs), RatInt(100))
                      ELSE RatInt(0),
     average_duration_seconds |-> m.avg_duration,
     estimated_cost_per_run |-> estimate_cost,
     last_updated |-> isoformat(t)]

\* lines 349-353: successful_runs += 1, then the running average
record_success(m, d) ==
    LET n == m.successful_runs + 1
    IN [m EXCEPT !.successful_runs = n,
                 !.avg_duration =
                     RatDiv(RatAdd(RatMul(m.avg_duration, RatInt(n - 1)),
                                   total_seconds(d)),
                            RatInt(n))]

\* line 383
record_failure(m) == [m EXCEPT !.failed_runs = @ + 1]

(***************************************************************************)
(* Files                                                                   *)
(***************************************************************************)
BlogPath(slug, ts, ext) ==
    [dir |-> "outputs/blog_posts", stem |-> slug, ts |-> ts, ext |-> ext]

\* _get_output_files: raises for a topic that cannot be iterated
get_output_files(topic, timestamp) ==
    IF ~topic.isStr
    THEN [raised |-> TRUE, files |-> <<>>]
    ELSE LET slug == safe_topic(topic.chars)
             ts == strftime(timestamp)
         IN [raised |-> FALSE,
             files |-> <<BlogPath(slug, ts, ".md"), BlogPath(slug, ts, ".html"),
                         BlogPath(slug, ts, ".txt"),
                         BlogPath(slug, ts, "_metadata.json")>>]

\* The error report named and placed like a result record
ErrorNameAsResults(t) ==
    [dir |-> "outputs/metrics", prefix |-> "workflow_results", ts |-> strftime(t)]

ResultsName(t) ==
    [dir |-> "outputs/metrics", prefix |-> "workflow_results", ts |-> strftime(t)]
ErrorName(t) ==
    [dir |-> "outputs/logs", prefix |-> "error_report", ts |-> strftime(t)]

Names(dsk) == {f.name : f \in dsk}

\* open(filename, 'w') followed by json.dump at instant t: creates or replaces
\* the file.  Of the document written, the disk keeps its "success" field.
write_file(dsk, name, content, t) ==
    {f \in dsk : f.name # name}
        \cup {[name |-> name, success |-> content.success, mtime |-> t]}

\* One call of a record writer: the disk after it, whether it raised, and
\* the write it attempted.
save_record(dsk, name, content, t, writeFails) ==
    [disk |-> IF writeFails THEN dsk ELSE write_file(dsk, name, content, t),
     raised |-> FALSE,
     attempt |-> [name |-> name, ok |-> ~writeFails, t |-> t,
                  existed |-> name \in Names(dsk),
                  success |-> content.success]]

\* _save_workflow_results with open/dump outside any try: a failed write raises
save_workflow_results_unguarded(dsk, t, results, writeFails) ==
    [save_record(dsk, ResultsName(t), results, t, writeFails)
        EXCEPT !.raised = writeFails]

\* _save_workflow_results: the open/dump is inside try/except Exception
save_workflow_results(dsk, t, results, writeFails) ==
    save_record(dsk, ResultsName(t), results, t, writeFails)

\* _save_error_report: the open/dump is inside try/except Exception
save_error_report(dsk, t, error_details, writeFails) ==
    save_record(dsk, ErrorName(t), error_details, t, writeFails)

(***************************************************************************)
(* run_workflow                                                            *)
(*                                                                         *)
(* env is what the surroundings decide during one call:                    *)
(*   fail       - the step of the try block that raises an Exception:      *)
(*                "create_tasks", "create_crew", "kickoff" or "none"       *)
(*   dur        - ticks between start_time and end_time                    *)
(*   writeFails - open() of the record file raises                         *)
(* The steps after end_time take no driver work: the record writer's own   *)
(* datetime.now() reads the tick of end_time.  Exceptions are subclasses   *)
(* of Exception, which is what the except clauses catch.                   *)
(***************************************************************************)
Fails == {"none", "create_tasks", "create_crew", "kickoff"}
Envs == [fail : Fails, dur : 0..MaxDur, writeFails : BOOLEAN]

\* The driver called a second time after it raised
DriverStepsRetry(fail) ==
    CASE fail = "create_tasks" -> <<"create_tasks">>
      [] fail = "create_crew"  -> <<"create_tasks", "create_crew">>
      [] fail = "kickoff"      -> <<"create_tasks", "create_crew", "kickoff",
                                    "kickoff">>
      [] OTHER                 -> <<"create_tasks", "create_crew", "kickoff">>

\* The steps of the try block up to and including the one that raises
DriverSteps(fail) ==
    CASE fail = "create_tasks" -> <<"create_tasks">>
      [] fail = "create_crew"  -> <<"create_tasks", "create_crew">>
      [] OTHER                 -> <<"create_tasks", "create_crew", "kickoff">>

\* lines 356-369
WorkflowResults(topic, word_count, start_time, end_time, files, m) ==
    [topic |-> topic,
     word_count |-> word_count,
     start_time |-> isoformat(start_time),
     end_time |-> isoformat(end_time),
     duration |-> end_time - start_time,
     duration_seconds |-> total_seconds(end_time - start_time),
     final_output |-> "str(result)",
     agents_used |-> 4,
     tasks_completed |-> 4,
     success |-> TRUE,
     output_files |-> files,
     metrics |-> get_performance_metrics(m, end_time)]

\* The error record built on top of the fields of a result record
ErrorDetailsWithOutput(topic, word_count, start_time, end_time, e) ==
    [topic |-> topic,
     word_count |-> word_count,
     start_time |-> isoformat(start_time),
     end_time |-> isoformat(end_time),
     duration |-> end_time - start_time,
     final_output |-> "",
     output_files |-> <<>>,
     error |-> e,
     traceback |-> <<"run_workflow", e>>,
     success |-> FALSE]

\* lines 385-394
ErrorDetails(topic, word_count, start_time, end_time, e) ==
    [topic |-> topic,
     word_count |-> word_count,
     start_time |-> isoformat(start_time),
     end_time |-> isoformat(end_time),
     duration |-> end_time - start_time,
     error |-> e,
     traceback |-> <<"run_workflow", e>>,
     success |-> FALSE]

\* The try block opened only after the tasks were created
in_try_late(step) == step \in {"create_crew", "kickoff"}

\* lines 336-343: the steps the try block encloses
in_try(step) == step \in {"create_tasks", "create_crew", "kickoff"}

\* What a call that raises hands back: nothing
NoResult == [success |-> FALSE, propagated |-> TRUE]

\* The handler returning the error details without saving an error report
handle_exception_unrecorded(m, dsk, topic, word_count, start_time, end_time, e, env, trace) ==
    [metrics |-> record_failure(m), disk |-> dsk, raised |-> FALSE,
     result |-> ErrorDetails(topic, word_count, start_time, end_time, e),
     writes |-> <<>>,
     trace |-> trace \o <<"end_time", "failed_runs+=1", "return">>]

\* lines 379-402: the except Exception handler
handle_exception(m, dsk, topic, word_count, start_time, end_time, e, env, trace) ==
    LET m1 == record_failure(m)
        error_details == ErrorDetails(topic, word_count, start_time, end_time, e)
        sv == save_error_report(dsk, end_time, error_details, env.writeFails)
        tr == trace \o <<"end_time", "failed_runs+=1", "_save_error_report">>
    IN IF sv.raised
       THEN [metrics |-> m1, disk |-> sv.disk, raised |-> TRUE,
             result |-> NoResult, writes |-> <<sv.attempt>>,
             trace |-> tr \o <<"raise">>]
       ELSE [metrics |-> m1, disk |-> sv.disk, raised |-> FALSE,
             result |-> error_details, writes |-> <<sv.attempt>>,
             trace |-> tr \o <<"return">>]

\* lines 330-402
run_workflow(m, dsk, t0, topic, word_count, env) ==
    LET m1 == [m EXCEPT !.total_runs = @ + 1]
        start_time == t0
        end_time == t0 + env.dur
        tr0 == <<"total_runs+=1", "start_time">> \o DriverSteps(env.fail)
    IN IF env.fail # "none" /\ ~in_try(env.fail)
       THEN [metrics |-> m1, disk |-> dsk, raised |-> TRUE, result |-> NoResult,
             writes |-> <<>>, trace |-> tr0 \o <<"raise">>]
       ELSE IF env.fail # "none"
       THEN handle_exception(m1, dsk, topic, word_count, start_time, end_time,
                             env.fail, env, tr0)
       ELSE
       LET m2 == record_success(m1, end_time - start_time)
           tr1 == tr0 \o <<"end_time", "successful_runs+=1", "avg_duration",
                           "_get_output_files">>
           of == get_output_files(topic, start_time)
       IN IF of.raised
          THEN handle_exception(m2, dsk, topic, word_count, start_time, end_time,
                                "_get_output_files", env, tr1)
          ELSE
          LET workflow_results ==
                  WorkflowResults(topic, word_count, start_time, end_time,
                                  of.files, m2)
              sv == save_workflow_results(dsk, end_time, workflow_results,
                                          env.writeFails)
              tr2 == tr1 \o <<"_save_workflow_results">>
          IN IF sv.raised
             THEN LET h == handle_exception(m2, sv.disk, topic, word_count,
                                            start_time, end_time,
                                            "_save_workflow_results", env, tr2)
                  IN [h EXCEPT !.writes = <<sv.attempt>> \o @]
             ELSE [metrics |-> m2, disk |-> sv.disk, raised |-> FALSE,
                   result |-> workflow_results, writes |-> <<sv.attempt>>,
                   trace |-> tr2 \o <<"return">>]

(***************************************************************************)
(* Start-up: loading the module, then constructing the orchestrator        *)
(***************************************************************************)
\* setup_directories, lines 74-79
Directories == {"outputs/blog_posts", "outputs/research_reports",
                "outputs/logs", "outputs/metrics"}

\* line 33: logging.FileHandler('outputs/logs/workflow.log') opens the file
\* when it is built; the open raises when the directory is missing
open_log_file(dirs) ==
    [path |-> "outputs/logs/workflow.log", parent |-> "outputs/logs",
     parentExisted |-> "outputs/logs" \in dirs,
     ok |-> "outputs/logs" \in dirs]

\* lines 81-82: Path(directory).mkdir(parents=True, exist_ok=True) for each
setup_directories(dirs) == dirs \cup Directories

\* The steps of __init__ after setup_directories that may raise
SetupFails == {"none", "setup_tools", "setup_agents"}

\* A process whose module is loaded and whose orchestrator is constructed
Booted ==
    [pc |-> "constructed", dirs |-> Directories, fresh |-> FALSE,
     opens |-> <<open_log_file(Directories)>>]

(***************************************************************************)
(* save_output_files                                                       *)
(***************************************************************************)
\* The instant of tick 0: 2024-01-02T03:04:05
Epoch == [year |-> 2024, month |-> 1, day |-> 2,
          hour |-> 3, minute |-> 4, second |-> 5]

\* The calendar fields of the instant sec whole seconds after Epoch, within
\* the day of Epoch
datetime_of(sec) ==
    LET total == (Epoch.hour * 60 + Epoch.minute) * 60 + Epoch.second + sec
    IN [year |-> Epoch.year, month |-> Epoch.month, day |-> Epoch.day,
        hour |-> total \div 3600, minute |-> (total \div 60) % 60,
        second |-> total % 60]

Digit(d) == DigitChars[d + 1]

\* %m, %d, %H, %M, %S: two digits, zero padded
Pad2(n) == <<Digit(n \div 10), Digit(n % 10)>>

\* %Y: four digits
Pad4(n) == <<Digit(n \div 1000), Digit((n \div 100) % 10),
             Digit((n \div 10) % 10), Digit(n % 10)>>

\* The text strftime("%Y%m%d_%H%M%S") gives for the whole second sec
stamp_text(sec) ==
    LET d == datetime_of(sec)
    IN Pad4(d.year) \o Pad2(d.month) \o Pad2(d.day) \o <<"_">>
       \o Pad2(d.hour) \o Pad2(d.minute) \o Pad2(d.second)

\* f"{safe_topic}_{timestamp_str}": the stem of a blog-post path, as text
stem_text(path) == path.stem \o <<"_">> \o stamp_text(path.ts)

\* The formats in the order save_output_files writes them
Formats == <<"markdown", "text", "html", "metadata">>
Extension(format) ==
    CASE format = "markdown" -> ".md"
      [] format = "text"     -> ".txt"
      [] format = "html"     -> ".html"
      [] format = "metadata" -> "_metadata.json"

\* len(content.split()): the number of maximal runs of non-whitespace
RECURSIVE word_count_of(_)
word_count_of(s) ==
    IF s = <<>> THEN 0
    ELSE LET rest == word_count_of(SubSeq(s, 2, Len(s)))
         IN IF ~isspace(s[1]) /\ (Len(s) = 1 \/ isspace(s[2]))
            THEN rest + 1 ELSE rest

\* content.replace('\n', '<br>')
replace_newlines(s) == [i \in DOMAIN s |-> IF s[i] = "\n" THEN "<br>" ELSE s[i]]

\* What is written into the file of one format
Body(format, topic, content, timestamp, files_saved) ==
    CASE format \in {"markdown", "text"} -> [content |-> content]
      [] format = "html" ->
             [title |-> topic.chars, content |-> replace_newlines(content)]
      [] format = "metadata" ->
             [topic |-> topic.chars, timestamp |-> isoformat(timestamp),
              word_count |-> word_count_of(content),
              character_count |-> Len(content),
              files_created |-> files_saved,
              created_by |-> "WorkflowOrchestrator"]

\* The mapping files_saved once the first k formats are written
FilesSaved(slug, ts, k) ==
    [f \in {Formats[i] : i \in 1..k} |-> BlogPath(slug, ts, Extension(f))]

\* lines 518-586.  failAt = 0: every open succeeds; failAt = k: the open of
\* the k-th format raises.  One try encloses the four writes.
save_output_files(bp, topic, content, timestamp, failAt) ==
    LET slug == save_safe_topic(topic.chars)
        ts == strftime(timestamp)
        k == IF failAt = 0 THEN Len(Formats) ELSE failAt - 1
        files_saved == FilesSaved(slug, ts, k)
        paths == {files_saved[f] : f \in DOMAIN files_saved}
        written ==
            {[path |-> BlogPath(slug, ts, Extension(Formats[i])),
              body |-> Body(Formats[i], topic, content, timestamp,
                            FilesSaved(slug, ts, IF i = 4 THEN 3 ELSE i - 1))]
                 : i \in 1..k}
    IN [blog_posts |-> {f \in bp : f.path \notin paths} \cup written,
        raised |-> FALSE,
        files_saved |-> files_saved]

(***************************************************************************)
(* State                                                                   *)
(*   workflow_metrics  the orchestrator's counters                         *)
(*   now               the wall clock, in ticks                            *)
(*   disk              the record files: a set of [name, success, mtime]   *)
(*   last              the latest run_workflow call: its inputs, the       *)
(*                     counters before it and what it did                  *)
(*   okSum, okCount    sum (ticks) and number of the durations of the      *)
(*                     calls that returned success = true                  *)
(*   batch             the batch_process call in progress or returned      *)
(*   blog_posts        the files under outputs/blog_posts: [path, body]    *)
(*   lastSave          the latest save_output_files call and the number    *)
(*                     of such calls so far                                *)
(*   boot              the process: how far start-up got, the directories  *)
(*                     that exist, whether the outputs/ tree was missing   *)
(*                     when the process started, the files opened by       *)
(*                     start-up                                            *)
(***************************************************************************)
NoCall ==
    [called |-> FALSE, topic |-> TopicSpaces,
     env |-> [fail |-> "none", dur |-> 0, writeFails |-> FALSE],
     pre |-> InitMetrics, predisk |-> {}, t0 |-> 0, raised |-> FALSE, result |-> NoResult,
     writes |-> <<>>, trace |-> <<>>]

NoBatch == [pc |-> "idle", topics |-> <<>>, i |-> 1, results |-> <<>>,
            failed |-> <<>>]

TopicEdge == [isStr |-> TRUE,
              chars |-> <<"E","d","g","e","/","C","a","s","e","?">>]
SaveTopics == {TopicEdge, TopicSpaces}
Contents == {<<"a"," ","b","\n","c">>}

NoSave ==
    [n |-> 0, topic |-> TopicSpaces, content |-> <<>>, timestamp |-> 0,
     failAt |-> 0, raised |-> FALSE, files_saved |-> <<>>, pre |-> {}]

\* Everything but the process: a fresh orchestrator, no call made yet
Fresh ==
    /\ workflow_metrics = InitMetrics
    /\ now = 0
    /\ disk = {}
    /\ last = NoCall
    /\ okSum = 0
    /\ okCount = 0
    /\ batch = NoBatch
    /\ blog_posts = {}
    /\ lastSave = NoSave

Init ==
    /\ Fresh
    /\ boot = Booted

\* The run raised somewhere in its try block
RunFailed(topic, env) == env.fail # "none" \/ ~topic.isStr

\* One call run_workflow(topic, word_count) and its effect on the state
Call(topic, env, out) ==
    /\ workflow_metrics' = out.metrics
    /\ disk' = out.disk
    /\ now' = now + env.dur
    /\ last' = [called |-> TRUE, topic |-> topic, env |-> env,
                pre |-> workflow_metrics, predisk |-> disk, t0 |-> now,
                raised |-> out.raised,
                result |-> out.result, writes |-> out.writes,
                trace |-> out.trace]
    /\ IF ~out.raised /\ out.result.success
       THEN okSum' = okSum + env.dur /\ okCount' = okCount + 1
       ELSE UNCHANGED <<okSum, okCount>>
    /\ UNCHANGED <<blog_posts, lastSave, boot>>

\* A caller invokes run_workflow directly (run_workflow.py main, main(),
\* interactive_mode); the list an earlier batch_process returned is gone
RunWorkflow(topic, env) ==
    /\ boot.pc = "constructed"
    /\ batch.pc # "loop"
    /\ workflow_metrics.total_runs < MaxRuns
    /\ now + env.dur <= MaxClock
    /\ Call(topic, env,
            run_workflow(workflow_metrics, disk, now, topic, DefaultWordCount, env))
    /\ batch' = NoBatch

\* batch_process, lines 490-492: results = []
BatchStart(topics) ==
    /\ boot.pc = "constructed"
    /\ batch.pc # "loop"
    /\ workflow_metrics.total_runs + Len(topics) <= MaxRuns
    /\ batch' = [pc |-> "loop", topics |-> topics, i |-> 1, results |-> <<>>,
                 failed |-> <<>>]
    /\ UNCHANGED <<workflow_metrics, now, disk, last, okSum, okCount>>
    /\ UNCHANGED <<blog_posts, lastSave, boot>>

\* lines 497-512: the body of the loop for one topic
batch_body(results, topic, out) ==
    IF out.raised
    THEN Append(results, [topic |-> topic, error |-> "Exception",
                          success |-> FALSE])
    ELSE Append(results, out.result)

\* The loop left at the first topic that fails
batch_next_break(i, n, out) ==
    IF out.raised \/ ~out.result.success THEN n + 1 ELSE i + 1

\* line 494: the topic the loop takes after topic number i
batch_next(i, n, out) == i + 1

\* One iteration of the loop of batch_process
BatchIter(env) ==
    /\ batch.pc = "loop"
    /\ batch.i <= Len(batch.topics)
    /\ now + env.dur <= MaxClock
    /\ LET topic == batch.topics[batch.i]
           out == run_workflow(workflow_metrics, disk, now, topic,
                               DefaultWordCount, env)
       IN /\ Call(topic, env, out)
          /\ batch' = [batch EXCEPT
                         !.results = batch_body(@, topic, out),
                         !.failed = Append(@, RunFailed(topic, env)),
                         !.i = batch_next(batch.i, Len(batch.topics), out)]

\* lines 514-516: the loop is over, return results
BatchReturn ==
    /\ batch.pc = "loop"
    /\ batch.i > Len(batch.topics)
    /\ batch' = [batch EXCEPT !.pc = "done"]
    /\ UNCHANGED <<workflow_metrics, now, disk, last, okSum, okCount>>
    /\ UNCHANGED <<blog_posts, lastSave, boot>>

\* Time passes between calls
Tick ==
    /\ now < MaxClock
    /\ now' = now + 1
    /\ UNCHANGED <<workflow_metrics, disk, last, okSum, okCount, batch>>
    /\ UNCHANGED <<blog_posts, lastSave, boot>>

RECURSIVE SeqsUpTo(_, _)
SeqsUpTo(S, n) ==
    IF n = 0 THEN {<<>>}
    ELSE LET shorter == SeqsUpTo(S, n - 1)
         IN shorter \cup {Append(q, x) : q \in shorter, x \in S}

Next ==
    \/ \E topic \in Topics, env \in Envs : RunWorkflow(topic, env)
    \/ \E topics \in SeqsUpTo(Topics, MaxBatch) : BatchStart(topics)
    \/ \E env \in Envs : BatchIter(env)
    \/ BatchReturn
    \/ Tick

Spec == Init /\ [][Next]_vars

\* A caller that only makes single run_workflow calls (run_workflow.py)
NextRun ==
    \/ \E topic \in Topics, env \in Envs : RunWorkflow(topic, env)
    \/ Tick

RunSpec == Init /\ [][NextRun]_vars

(***************************************************************************)
(* A caller of save_output_files                                           *)
(***************************************************************************)
SaveOutputFiles(topic, content, timestamp, failAt) ==
    /\ boot.pc = "constructed"
    /\ lastSave.n < MaxSaves
    /\ LET out == save_output_files(blog_posts, topic, content, timestamp, failAt)
       IN /\ blog_posts' = out.blog_posts
          /\ lastSave' = [n |-> lastSave.n + 1, topic |-> topic,
                          content |-> content, timestamp |-> timestamp,
                          failAt |-> failAt, raised |-> out.raised,
                          files_saved |-> out.files_saved, pre |-> blog_posts]
    /\ UNCHANGED <<workflow_metrics, now, disk, last, okSum, okCount, batch, boot>>

NextWriter ==
    \E topic \in SaveTopics, content \in Contents, timestamp \in 0..MaxClock,
       failAt \in 0..Len(Formats) :
        SaveOutputFiles(topic, content, timestamp, failAt)

WriterSpec == Init /\ [][NextWriter]_vars

(***************************************************************************)
(* The scenario of three runs lasting 10, 5 and 20 seconds                 *)
(***************************************************************************)
ScenarioSeconds == {5, 10, 20}
ScenarioEnvs ==
    [fail : Fails, dur : {sec * TicksPerSecond : sec \in ScenarioSeconds},
     writeFails : BOOLEAN]

\* run_workflow called back to back, the driver taking env.dur
ScenarioRun(topic, env) ==
    /\ boot.pc = "constructed"
    /\ workflow_metrics.total_runs < MaxRuns
    /\ Call(topic, env,
            run_workflow(workflow_metrics, disk, now, topic, DefaultWordCount, env))
    /\ batch' = NoBatch

NextScenario == \E topic \in Topics, env \in ScenarioEnvs : ScenarioRun(topic, env)

ScenarioSpec == Init /\ [][NextScenario]_vars

(***************************************************************************)
(* The process from its start: run_workflow.py                             *)
(***************************************************************************)
\* Any part of the outputs/ tree may be there when the process starts
StartInit ==
    /\ Fresh
    /\ \E dirs \in SUBSET Directories :
           boot = [pc |-> "start", dirs |-> dirs, fresh |-> dirs = {},
                   opens |-> <<>>]

\* run_workflow.py line 1: the import runs workflow_orchestrator.py lines
\* 13-37, where basicConfig builds the FileHandler
LoadModule ==
    /\ boot.pc = "start"
    /\ LET o == open_log_file(boot.dirs)
       IN boot' = [boot EXCEPT !.opens = Append(@, o),
                               !.pc = IF o.ok THEN "loaded" ELSE "load_failed"]
    /\ UNCHANGED <<workflow_metrics, now, disk, last, okSum, okCount, batch,
                   blog_posts, lastSave>>

\* WorkflowOrchestrator(), lines 51-70
Construct(fails) ==
    /\ boot.pc = "loaded"
    /\ boot' = [boot EXCEPT !.dirs = setup_directories(@),
                            !.pc = IF fails = "none" THEN "constructed"
                                   ELSE "construct_failed"]
    /\ workflow_metrics' = InitMetrics
    /\ UNCHANGED <<now, disk, last, okSum, okCount, batch, blog_posts, lastSave>>

NextStartup ==
    \/ LoadModule
    \/ \E fails \in SetupFails : Construct(fails)
    \/ \E topic \in Topics, env \in Envs : RunWorkflow(topic, env)
    \/ Tick

StartupSpec == StartInit /\ [][NextStartup]_vars

(***************************************************************************)
(* Properties                                                              *)
(***************************************************************************)
Returned == last.called /\ ~last.raised

\* C1: after any sequence of completed run_workflow calls, including runs
\* where a step after the driver call raises,
\* total_runs = successful_runs + failed_runs.
C1_TotalIsSuccessfulPlusFailed ==
    workflow_metrics.total_runs =
        workflow_metrics.successful_runs + workflow_metrics.failed_runs

\* C2: a run_workflow call that returns raises total_runs by exactly 1; when
\* it returns success = true, successful_runs is 1 higher and failed_runs is
\* unchanged; when it returns success = false, failed_runs is 1 higher and
\* successful_runs is unchanged.
C2_OneCounterPerReturnedRun ==
    Returned =>
        /\ workflow_metrics.total_runs = last.pre.total_runs + 1
        /\ last.result.success =>
               /\ workflow_metrics.successful_runs = last.pre.successful_runs + 1
               /\ workflow_metrics.failed_runs = last.pre.failed_runs
        /\ ~last.result.success =>
               /\ workflow_metrics.failed_runs = last.pre.failed_runs + 1
               /\ workflow_metrics.successful_runs = last.pre.successful_runs

\* The arithmetic mean, in seconds, of the durations of the runs that returned
\* success = true; 0 when there are none
MeanOfSuccesses ==
    IF okCount = 0 THEN RatInt(0) ELSE Rat(okSum, okCount * TicksPerSecond)

\* C3: avg_duration is the arithmetic mean of the durations of exactly the
\* runs that returned success = true (0 when there are none), and a run that
\* returns success = false leaves avg_duration unchanged.
C3_AvgIsMeanOfReturnedSuccesses ==
    /\ workflow_metrics.avg_duration = MeanOfSuccesses
    /\ (Returned /\ ~last.result.success) =>
           workflow_metrics.avg_duration = last.pre.avg_duration

\* C4: an exception raised by task creation, crew creation or the pipeline
\* driver never leaves run_workflow: the call returns a result with
\* success = false that carries the error message and the traceback.
C4_FailuresAreReturned ==
    (last.called /\ last.env.fail # "none") =>
        /\ ~last.raised
        /\ last.result.success = FALSE
        /\ {"error", "traceback"} \subseteq DOMAIN last.result
        /\ last.result.error = last.env.fail

\* C4 witness: the driver raised in a call made after an earlier call had
\* already failed, so the orchestrator was still usable after a failure.
C4_Witness ==
    /\ last.called
    /\ last.env.fail = "kickoff"
    /\ last.pre.failed_runs >= 1
    /\ ~last.raised

\* What the latest call would have done had its record write succeeded
WithWriteOk ==
    run_workflow(last.pre, last.predisk, last.t0, last.topic, DefaultWordCount,
                 [last.env EXCEPT !.writeFails = FALSE])

\* C5: when the write of the result record or of the error report fails,
\* run_workflow returns the result, and leaves the counters, that it would
\* have with the write succeeding.
C5_WriteFailureChangesNothing ==
    (last.called /\ last.env.writeFails) =>
        /\ ~last.raised
        /\ last.result = WithWriteOk.result
        /\ last.result.success = ~RunFailed(last.topic, last.env)
        /\ workflow_metrics = WithWriteOk.metrics

\* C5 witness: a successful run whose result record could not be written
C5_Witness ==
    /\ Returned
    /\ last.env.writeFails
    /\ last.result.success
    /\ last.writes # <<>>
    /\ ~last.writes[1].ok

\* C6: batch_process over n topics returns n results, result i for topic i,
\* with success = false exactly at the indices whose run failed; a failure
\* does not stop the loop.
C6_OneResultPerTopicInOrder ==
    /\ batch.pc \in {"loop", "done"} =>
           \A i \in DOMAIN batch.results :
               /\ i <= Len(batch.topics)
               /\ batch.results[i].topic = batch.topics[i]
               /\ batch.results[i].success = ~batch.failed[i]
    /\ batch.pc = "done" => Len(batch.results) = Len(batch.topics)

\* C6 witness: a returned batch whose first topic failed and whose second,
\* processed after it, succeeded
C6_Witness ==
    /\ batch.pc = "done"
    /\ Len(batch.topics) = 2
    /\ Len(batch.results) = 2
    /\ ~batch.results[1].success
    /\ batch.results[2].success

OneGroup(r) ==
    IF r.success
    THEN /\ {"final_output", "output_files"} \subseteq DOMAIN r
         /\ r.output_files # <<>>
         /\ "error" \notin DOMAIN r
    ELSE /\ "error" \in DOMAIN r
         /\ {"final_output", "output_files"} \cap DOMAIN r = {}

\* C7: every result run_workflow returns, and every result in a batch list,
\* carries final_output and output_files and no error when success = true,
\* and error and neither final_output nor output_files when success = false.
C7_ExactlyOneGroupPopulated ==
    /\ Returned => OneGroup(last.result)
    /\ \A i \in DOMAIN batch.results : OneGroup(batch.results[i])

\* C7 witness: a returned batch holding a success result and a failure result
C7_Witness ==
    /\ batch.pc = "done"
    /\ \E i, j \in DOMAIN batch.results :
           /\ batch.results[i].success
           /\ "final_output" \in DOMAIN batch.results[i]
           /\ ~batch.results[j].success
           /\ "error" \in DOMAIN batch.results[j]

Count(tr, e) == Cardinality({i \in DOMAIN tr : tr[i] = e})
First(tr, e) == CHOOSE i \in DOMAIN tr : tr[i] = e /\ \A j \in 1..(i - 1) : tr[j] # e

\* start_time is captured, then the counters are updated, then a record is
\* handed to a record writer, then the call returns
AccountedAndRecorded ==
    /\ Count(last.trace, "start_time") = 1
    /\ Count(last.trace, "end_time") >= 1
    /\ First(last.trace, "start_time") < First(last.trace, "end_time")
    /\ \E i, j \in DOMAIN last.trace :
           /\ i < j
           /\ j < Len(last.trace)
           /\ last.trace[i] \in {"successful_runs+=1", "failed_runs+=1"}
           /\ last.trace[j] \in {"_save_workflow_results", "_save_error_report"}
    /\ last.trace[Len(last.trace)] = "return"
    /\ last.writes # <<>>
    /\ workflow_metrics.successful_runs + workflow_metrics.failed_runs
           > last.pre.successful_runs + last.pre.failed_runs

\* C8 as stated: every run_workflow invocation calls crew.kickoff exactly
\* once, between the captures of start_time and end_time, and updates the
\* counters and hands a record to a record writer before it returns.
C8_DriverCalledExactlyOnce ==
    last.called =>
        /\ Count(last.trace, "kickoff") = 1
        /\ First(last.trace, "start_time") < First(last.trace, "kickoff")
        /\ First(last.trace, "kickoff") < First(last.trace, "end_time")
        /\ AccountedAndRecorded

\* C8 amended: run_workflow calls crew.kickoff exactly once when task and crew
\* creation succeed and not at all when one of them raises; a call it makes
\* lies between the captures of start_time and end_time; in every case the
\* counters are updated and a record is handed to a record writer before the
\* call returns.
C8_DriverCalledOnceUnlessSetupRaises ==
    last.called =>
        /\ Count(last.trace, "kickoff") =
               IF last.env.fail \in {"create_tasks", "create_crew"} THEN 0 ELSE 1
        /\ Count(last.trace, "kickoff") = 1 =>
               /\ First(last.trace, "start_time") < First(last.trace, "kickoff")
               /\ First(last.trace, "kickoff") < First(last.trace, "end_time")
        /\ AccountedAndRecorded

\* C8 witness: the driver was called and raised, and the run was accounted
\* for and recorded
C8_Witness ==
    /\ last.called
    /\ last.env.fail = "kickoff"
    /\ Count(last.trace, "kickoff") = 1
    /\ Count(last.trace, "_save_error_report") = 1
    /\ workflow_metrics.failed_runs = last.pre.failed_runs + 1

\* C9 as stated: no run writes its record to a file name that the record of
\* an earlier run already uses.
C9_NoRecordOverwritten ==
    last.called =>
        \A i \in DOMAIN last.writes :
            last.writes[i].ok => ~last.writes[i].existed

\* C9 amended: the file name of a run's record is already in use exactly when
\* an earlier run with the same outcome (both successful or both failed) saved
\* its record within the same wall-clock second; then the earlier record is
\* overwritten.
C9_NameReusedOnlyWithinOneSecond ==
    last.called =>
        \A i \in DOMAIN last.writes :
            LET w == last.writes[i]
            IN /\ w.existed <=>
                      \E f \in last.predisk :
                          /\ f.success = w.success
                          /\ f.mtime \div TicksPerSecond = w.t \div TicksPerSecond
               /\ (w.ok /\ w.existed) =>
                      /\ Cardinality(disk) = Cardinality(last.predisk)
                      /\ \E f \in disk : f.name = w.name /\ f.mtime = w.t

\* C9 witness: a record written over the record of an earlier run
C9_Witness ==
    /\ last.called
    /\ last.writes # <<>>
    /\ last.writes[1].ok
    /\ last.writes[1].existed

SlugWithOneUnderscore == <<"a","i","_","s","o","c","i","e","t","y">>
SlugWithTwoUnderscores == <<"a","i","_","_","s","o","c","i","e","t","y">>

\* A run of this topic whose driver returned
DriverReturnedFor(topic) ==
    last.called /\ last.topic = topic /\ last.env.fail = "none"

StemsAre(slug) ==
    /\ Returned
    /\ last.result.success
    /\ \A i \in DOMAIN last.result.output_files :
           last.result.output_files[i].stem = slug
    /\ save_safe_topic(last.topic.chars) = slug

\* C10 as stated: the slug of "AI & Society!!" is "ai_society", and the slug
\* of a topic of spaces only is the empty string, accepted without error.
C10_SlugAiSociety ==
    /\ DriverReturnedFor(TopicAI) => StemsAre(SlugWithOneUnderscore)
    /\ DriverReturnedFor(TopicSpaces) => StemsAre(<<>>)

\* C10 amended: the slug of "AI & Society!!" is "ai__society", with one
\* underscore for each of the two spaces around the dropped "&", and the slug
\* of a topic of spaces only is the empty string, accepted without error.
C10_SlugAiTwoUnderscores ==
    /\ DriverReturnedFor(TopicAI) => StemsAre(SlugWithTwoUnderscores)
    /\ DriverReturnedFor(TopicSpaces) => StemsAre(<<>>)

\* C10 witness: a successful run for "AI & Society!!"
C10_Witness ==
    /\ DriverReturnedFor(TopicAI)
    /\ last.result.success
    /\ Len(last.result.output_files) = 4
    /\ last.result.output_files[1].stem = SlugWithTwoUnderscores

StampOfEpoch ==
    <<"2","0","2","4","0","1","0","2","_","0","3","0","4","0","5">>
StemEdgeUnderscoreCase == <<"e","d","g","e","_","c","a","s","e","_">> \o StampOfEpoch
StemEdgecase == <<"e","d","g","e","c","a","s","e","_">> \o StampOfEpoch

\* save_output_files was called for "Edge/Case?" with the timestamp
\* 2024-01-02T03:04:05 and every write succeeded
SavedEdgeAtEpoch ==
    /\ lastSave.n > 0
    /\ lastSave.topic = TopicEdge
    /\ lastSave.timestamp = 0
    /\ lastSave.failAt = 0

\* The call wrote the four files under outputs/blog_posts with this stem
FourFilesWithStem(stem) ==
    /\ ~lastSave.raised
    /\ DOMAIN lastSave.files_saved = Range(Formats)
    /\ \A f \in DOMAIN lastSave.files_saved :
           LET path == lastSave.files_saved[f]
           IN /\ stem_text(path) = stem
              /\ path.dir = "outputs/blog_posts"
              /\ path.ext = Extension(f)
              /\ \E file \in blog_posts : file.path = path
    /\ {lastSave.files_saved[f].ext : f \in DOMAIN lastSave.files_saved}
           = {".md", ".txt", ".html", "_metadata.json"}

\* C11 as stated: the artifacts for topic "Edge/Case?" and timestamp
\* 2024-01-02T03:04:05 have the stem "edge_case_20240102_030405", with .md,
\* .txt, .html and _metadata.json, under outputs/blog_posts.
C11_StemEdgeUnderscoreCase ==
    SavedEdgeAtEpoch => FourFilesWithStem(StemEdgeUnderscoreCase)

\* C11 amended: the stem is "edgecase_20240102_030405": the slash and the
\* question mark are dropped and nothing takes their place.
C11_StemEdgecase ==
    SavedEdgeAtEpoch => FourFilesWithStem(StemEdgecase)

\* C11 witness: the four artifacts of "Edge/Case?" at 2024-01-02T03:04:05
C11_Witness ==
    /\ SavedEdgeAtEpoch
    /\ Cardinality({file \in blog_posts : stem_text(file.path) = StemEdgecase}) = 4

\* The latest save_output_files call had the open of exactly one format raise
OneWriteFailed == lastSave.n > 0 /\ lastSave.failAt # 0

\* C12 as stated: when the write of one of the four formats fails, the call
\* does not raise, the files written earlier remain, and the mapping returned
\* omits the failed format only: every other format is written and reported.
C12_OnlyFailedFormatOmitted ==
    OneWriteFailed =>
        /\ ~lastSave.raised
        /\ DOMAIN lastSave.files_saved
               = Range(Formats) \ {Formats[lastSave.failAt]}
        /\ \A f \in DOMAIN lastSave.files_saved :
               \E file \in blog_posts : file.path = lastSave.files_saved[f]
        /\ \A i \in 1..(lastSave.failAt - 1) :
               \E file \in blog_posts :
                   file.path = BlogPath(save_safe_topic(lastSave.topic.chars),
                                        strftime(lastSave.timestamp),
                                        Extension(Formats[i]))

\* x to two decimals, halves rounded up
Round2(x) == Rat((200 * x.num + x.den) \div (2 * x.den), 100)

\* Three runs were made back to back on a fresh orchestrator: the first
\* returned success after 10 seconds, the second returned a failure after 5
\* seconds, the third returned success after 20 seconds; the records of the
\* first two are on disk
ThreeRunsScenario ==
    /\ workflow_metrics.total_runs = 3
    /\ Returned
    /\ last.result.success
    /\ last.env.dur = 20 * TicksPerSecond
    /\ last.t0 = 15 * TicksPerSecond
    /\ last.pre.total_runs = 2
    /\ okCount = 2
    /\ okSum = 30 * TicksPerSecond
    /\ \E f \in last.predisk : f.success /\ f.mtime = 10 * TicksPerSecond
    /\ \E f \in last.predisk : ~f.success /\ f.mtime = 15 * TicksPerSecond

\* C13 as stated: after runs ending as success in 10 s, failure in 5 s and
\* success in 20 s on a fresh orchestrator, the metrics are total_runs = 3,
\* successful_runs = 2, failed_runs = 1, average duration 15.0 and success
\* rate 66.67 to two decimals.
C13_ThreeRunsMetrics ==
    ThreeRunsScenario =>
        LET pm == get_performance_metrics(workflow_metrics, now)
        IN /\ pm.total_runs = 3
           /\ pm.successful_runs = 2
           /\ pm.failed_runs = 1
           /\ pm.average_duration_seconds = RatInt(15)
           /\ Round2(pm.success_rate) = Rat(6667, 100)

\* C14 as stated: when run_workflow returns success = true, every path listed
\* in output_files names a file that save_output_files wrote during that run.
C14_OutputFilesWereWritten ==
    Returned /\ last.result.success =>
        /\ Count(last.trace, "save_output_files") >= 1
        /\ \A i \in DOMAIN last.result.output_files :
               \E file \in blog_posts : file.path = last.result.output_files[i]

\* C15: every run_workflow call attempts to persist exactly one record, of
\* the kind matching the result it returns: a workflow_results record if and
\* only if it returns success = true, an error_report record if and only if
\* it returns success = false.
C15_OneRecordOfMatchingKind ==
    last.called =>
        /\ ~last.raised
        /\ Len(last.writes) = 1
        /\ last.writes[1].name.prefix \in {"workflow_results", "error_report"}
        /\ last.writes[1].name.prefix = "workflow_results" <=> last.result.success
        /\ last.writes[1].name.prefix = "error_report" <=> ~last.result.success
        /\ Count(last.trace, "_save_workflow_results")
               + Count(last.trace, "_save_error_report") = 1

\* C15 witness: after a run that saved a result record, a run fails once the
\* driver has returned and attempts one error report, which cannot be written
C15_Witness ==
    /\ last.called
    /\ ~last.result.success
    /\ Count(last.trace, "kickoff") = 1
    /\ last.env.fail = "none"
    /\ last.env.writeFails
    /\ Len(last.writes) = 1
    /\ last.writes[1].name.prefix = "error_report"
    /\ ~last.writes[1].ok
    /\ \E f \in last.predisk : f.name.prefix = "workflow_results"

\* C16 as stated: starting without the outputs/ tree, no file under outputs/,
\* the log file opened when the module is loaded included, is opened for
\* writing before setup_directories has created its parent directory;
\* constructing the first orchestrator therefore succeeds and leaves all
\* four directories present.
C16_ParentCreatedBeforeOpen ==
    boot.fresh =>
        /\ \A i \in DOMAIN boot.opens : boot.opens[i].parentExisted
        /\ boot.pc # "load_failed"
        /\ boot.pc = "constructed" => boot.dirs = Directories

====
